---- MODULE Spec2Model ----
(***************************************************************************)
(* Lock-free ring buffers of rdgarce/common:                                *)
(*   - the SPSC queue of src/queue/queue.h            (specification QSpec) *)
(*   - the broadcast queue of src/broadcast/broadcast.h (specification Spec)*)
(* Machine integers keep a width: every C expression is evaluated modulo   *)
(* 2^width of its C type.  The widths are scaled down (see the bounds) but  *)
(* keep the order the source declares: Reader < tail bit-field < brdct_t.   *)
(***************************************************************************)
EXTENDS Integers, Sequences, FiniteSets

(***************************************************************************)
(* Bounds of the model (scaled-down widths and sizes).                     *)
(***************************************************************************)
\* width of the Reader counter (uint32_t in the source)
ReaderBits == 3
\* width of the nreaders and ncycled bit-fields (15 in the source)
CensusBits == 2
\* capacity exponent handed to every broadcast call (QEXP in test.c)
CapLg2 == 2
\* reader handles that run the whole worker loop
NActive == 2
\* reader handles whose thread attaches and is then never scheduled again
NStalled == 2
\* bytes of main's input file beyond the first 2^ReaderBits
PastWrap == 1
\* bytes main still has to read when the step-by-step run starts
LLeft == 3
\* worker threads of the step-by-step run
LReaders == 2
\* bytes main still has to read when the wide-range run starts
WLeft == 3
\* worker threads of the wide-range run
WReaders == 1
\* width of size_t for the SPSC queue
QWordBits == 5
\* capacity exponent handed to every SPSC call
QCapLg2 == 2
\* elements the producer pushes in one run
MaxPush == 10

(***************************************************************************)
(* Machine arithmetic.                                                     *)
(***************************************************************************)
Pow2(n) == 2 ^ n

\* x reduced to an unsigned integer of the given width
Wrap(x, bits) == ((x % Pow2(bits)) + Pow2(bits)) % Pow2(bits)

\* x >> n
Shr(x, n) == x \div Pow2(n)

\* x & ((1 << n) - 1)
LowBits(x, n) == x % Pow2(n)

Min(a, b) == IF a <= b THEN a ELSE b

----------------------------------------------------------------------------
(***************************************************************************)
(* Broadcast queue: widths and layout of the state word.                   *)
(***************************************************************************)
\* the tail bit-field is one bit wider than Reader (33 against 32)
TailBits == ReaderBits + 1
\* brdct_t and size_t are wider than the tail bit-field (64 against 33)
WordBits == TailBits + 2
\* ((1 << 15) - 1) >> BRDCT_RESIZE
NReadersMax == Pow2(CensusBits) - 1

\* length of main's input file: main stops producing at end of file
FileLen == Pow2(ReaderBits) + PastWrap

Cap == Pow2(CapLg2)
HalfLen == Pow2(CapLg2 - 1)

Handles == 1 .. (NActive + NStalled)
Active == 1 .. NActive

\* the threads: main is thread 0, the worker of handle h is thread h
Writer == 0
Threads == {Writer} \cup Handles

\* Broadcast q = {0}
ZeroWord == [tail |-> 0, nreaders |-> 0, ncycled |-> 0, hstate |-> 0]

\* Slice { idx[0], cnt[0], cnt[1], len }; idx[1] is never set and stays 0
NoSlice == [idx0 |-> 0, cnt0 |-> 0, cnt1 |-> 0, len |-> 0]

\* marks an array slot nobody has written yet
Unwritten == -1

VARIABLES
    brc,      \* the state word: [tail, nreaders, ncycled, hstate]
    slots,    \* the caller's array of Cap elements
    r,        \* r[h]: the Reader counter of handle h
    rpc,      \* rpc[h]: where handle h's thread is in the worker loop
    rs,       \* rs[h]: the Slice handle h's thread holds
    ret,      \* ret[h]: what the last brdct_attach_reader of h returned
    produced, \* bytes main has read from its input file
    wpc,      \* where the writer is in main's loop
    ws,       \* the Slice the writer holds, as main decrements it
    wgot,     \* the Slice as brdct_writer_slice returned it
    qhead,    \* Queue.head
    qtail,    \* Queue.tail
    qdata,    \* the caller's array of the SPSC queue
    ppc,      \* where the producer is
    pidx,     \* index returned by the producer's queue_push
    pcount,   \* *count set by the producer's queue_push
    phead,    \* the head value the producer's queue_push loaded
    pn,       \* elements the producer wrote and will commit
    cpc,      \* where the consumer is
    cidx,     \* index returned by the consumer's queue_pop
    ccount,   \* *count set by the consumer's queue_pop
    ctail,    \* the tail value the consumer's queue_pop loaded
    cgot,     \* elements the consumer read and will commit
    pushed,   \* every element committed by queue_commit_push, in order
    popped,   \* every element committed by queue_commit_pop, in order
    curr,     \* curr[t]: the state word thread t loaded (its local curr.raw)
    stale     \* stale[t]: another thread changed the word since t loaded it

bvars == <<brc, slots, r, rpc, rs, ret, produced, wpc, ws, wgot>>
qvars == <<qhead, qtail, qdata, ppc, pidx, pcount, phead, pn,
           cpc, cidx, ccount, ctail, cgot, pushed, popped>>
lvars == <<curr, stale>>
vars == <<bvars, qvars, lvars>>

----------------------------------------------------------------------------
(***************************************************************************)
(* SPSC queue (src/queue/queue.h).                                         *)
(***************************************************************************)
QCap == Pow2(QCapLg2)
QWord == 0 .. (Pow2(QWordBits) - 1)

\* a mutation of QCond: the final & 0x1 is missing
QCondNoParity(a, b) == Wrap(Shr(a, QCapLg2) - Shr(b, QCapLg2), QWordBits)

\* cond of queue_pop and queue_push: parity of the two block numbers
QCond(a, b) == Wrap(Shr(a, QCapLg2) - Shr(b, QCapLg2), QWordBits) % 2

\* a mutation of PopCount: the run is not cut at the end of the array
PopCountUnsplit(head, tail) == Wrap(tail - head, QWordBits)

\* *count as queue_pop computes it from q->head and the loaded tail
PopCount(head, tail) ==
    Wrap(tail - head - LowBits(tail, QCapLg2) * QCond(tail, head), QWordBits)

\* a mutation of PopIndex: the mask is missing
PopIndexUnmasked(head) == head

\* the index queue_pop returns
PopIndex(head) == LowBits(head, QCapLg2)

\* a mutation of PushCount: the run goes to the end of the array whatever
\* the consumer has popped
PushCountIgnoresHead(head, tail) == QCap - LowBits(tail, QCapLg2)

\* a mutation of PushCount: one slot is kept free, as the broadcast queue does
PushCountReservesSlot(head, tail) ==
    LET c == Wrap(QCap - Wrap(tail - head, QWordBits)
                       - LowBits(head, QCapLg2) * (1 - QCond(tail, head)),
                  QWordBits)
    IN IF c > 0 THEN c - 1 ELSE 0

\* *count as queue_push computes it from q->tail and the loaded head
PushCount(head, tail) ==
    Wrap(QCap - Wrap(tail - head, QWordBits)
              - LowBits(head, QCapLg2) * (1 - QCond(tail, head)), QWordBits)

\* the index queue_push returns
PushIndex(tail) == LowBits(tail, QCapLg2)

\* values an acquire load of a counter may return: any value the counter
\* held since the value this thread last saw (seen), up to the current one
Loadable(seen, now) ==
    { Wrap(seen + i, QWordBits) : i \in 0 .. Wrap(now - seen, QWordBits) }

QInitVars ==
    /\ qdata = [i \in 0 .. (QCap - 1) |-> Unwritten]
    /\ ppc = "idle" /\ pidx = 0 /\ pcount = 0 /\ pn = 0
    /\ cpc = "idle" /\ cidx = 0 /\ ccount = 0 /\ cgot = << >>
    /\ pushed = << >> /\ popped = << >>

\* queue_pop
QueuePop ==
    /\ cpc = "idle"
    /\ \E t \in Loadable(ctail, qtail) :
          /\ ctail' = t
          /\ ccount' = PopCount(qhead, t)
    /\ cidx' = PopIndex(qhead)
    /\ cpc' = "sliced"
    /\ UNCHANGED <<qhead, qtail, qdata, ppc, pidx, pcount, phead, pn,
                   cgot, pushed, popped>>

\* the consumer reads n <= count elements out of the returned slice
ConsumerRead ==
    /\ cpc = "sliced"
    /\ \E n \in 0 .. ccount :
          cgot' = [i \in 1 .. n |->
                      IF cidx + i - 1 < QCap THEN qdata[cidx + i - 1]
                                             ELSE Unwritten]
    /\ cpc' = "read"
    /\ UNCHANGED <<qhead, qtail, qdata, ppc, pidx, pcount, phead, pn,
                   cidx, ccount, ctail, pushed, popped>>

\* queue_commit_pop
QueueCommitPop ==
    /\ cpc = "read"
    /\ qhead' = Wrap(qhead + Len(cgot), QWordBits)
    /\ popped' = popped \o cgot
    /\ cgot' = << >>
    /\ cidx' = 0 /\ ccount' = 0
    /\ cpc' = "idle"
    /\ UNCHANGED <<qtail, qdata, ppc, pidx, pcount, phead, pn, ctail, pushed>>

\* queue_push
QueuePush ==
    /\ ppc = "idle"
    /\ \E h \in Loadable(phead, qhead) :
          /\ phead' = h
          /\ pcount' = PushCount(h, qtail)
    /\ pidx' = PushIndex(qtail)
    /\ ppc' = "sliced"
    /\ UNCHANGED <<qhead, qtail, qdata, pn, cpc, cidx, ccount, ctail, cgot,
                   pushed, popped>>

\* the producer writes n <= count new elements into the returned slice;
\* the k-th element of the whole run is the number k
ProducerWrite ==
    /\ ppc = "sliced"
    /\ \E n \in 0 .. Min(pcount, MaxPush - Len(pushed)) :
          /\ pn' = n
          /\ qdata' = [i \in 0 .. (QCap - 1) |->
                          IF i >= pidx /\ i < pidx + n
                          THEN Len(pushed) + 1 + (i - pidx)
                          ELSE qdata[i]]
    /\ ppc' = "written"
    /\ UNCHANGED <<qhead, qtail, pidx, pcount, phead, cpc, cidx, ccount,
                   ctail, cgot, pushed, popped>>

\* queue_commit_push
QueueCommitPush ==
    /\ ppc = "written"
    /\ qtail' = Wrap(qtail + pn, QWordBits)
    /\ pushed' = pushed \o [i \in 1 .. pn |-> Len(pushed) + i]
    /\ pn' = 0 /\ pidx' = 0 /\ pcount' = 0
    /\ ppc' = "idle"
    /\ UNCHANGED <<qhead, qdata, phead, cpc, cidx, ccount, ctail, cgot, popped>>

----------------------------------------------------------------------------
(***************************************************************************)
(* Broadcast queue (src/broadcast/broadcast.h) and its callers (test.c).   *)
(***************************************************************************)
\* a mutation of HeadOf: hstate is ignored
HeadOfSameBlock(w) == Wrap(w.tail - LowBits(w.tail, CapLg2 - 1), WordBits)

\* head = (tail & -halflen) - halflen * hstate, in brdct_t arithmetic
HeadOf(w) == Wrap((w.tail - LowBits(w.tail, CapLg2 - 1)) - HalfLen * w.hstate,
                WordBits)

\* curr.tail - *r: a build that promotes the bit-field to brdct_t computes
\* it in WordBits, a build that keeps the bit-field's width in TailBits
TailMinusR(tail, rd) ==
    { Wrap(tail - rd, WordBits), Wrap(tail - rd, TailBits) }

\* the Slice of brdct_reader_slice, given the value d of curr.tail - *r
ReaderSliceOf(tail, rd, d) ==
    LET idx0 == LowBits(rd, CapLg2)
        split == Shr(tail, CapLg2) # Shr(rd, CapLg2)
        cnt0 == IF split THEN Wrap(d - LowBits(tail, CapLg2), WordBits) ELSE d
        cnt1 == IF split THEN LowBits(tail, CapLg2) ELSE 0
    IN [idx0 |-> idx0, cnt0 |-> cnt0, cnt1 |-> cnt1,
        len |-> Wrap(cnt0 + cnt1, WordBits)]

\* a mutation of WriterReset: the reset waits for ncycled to exceed nreaders
WriterResetStrict(w) ==
    IF w.nreaders = 0 \/ w.ncycled <= w.nreaders
    THEN w
    ELSE [w EXCEPT !.ncycled = 0, !.hstate = 0]

\* a mutation of WriterReset: without readers the word is reset as well
WriterResetWithoutReaders(w) ==
    IF w.nreaders > 0 /\ w.ncycled < w.nreaders
    THEN w
    ELSE [w EXCEPT !.ncycled = 0, !.hstate = 0]

\* the state word brdct_writer_slice leaves behind
WriterReset(w) ==
    IF w.nreaders = 0 \/ w.ncycled < w.nreaders
    THEN w
    ELSE [w EXCEPT !.ncycled = 0, !.hstate = 0]

\* a mutation of WriterSliceOf: the last free slot is handed out as well
WriterSliceOfWholeQueue(w) ==
    LET head == HeadOf(w)
        same == Shr(w.tail, CapLg2) = Shr(head, CapLg2)
        c0 == Wrap(Cap - Wrap(w.tail - head, WordBits), WordBits)
        cnt0 == IF same THEN Wrap(c0 - LowBits(head, CapLg2), WordBits) ELSE c0
        cnt1 == IF same THEN LowBits(head, CapLg2) ELSE 0
    IN [idx0 |-> LowBits(w.tail, CapLg2), cnt0 |-> cnt0, cnt1 |-> cnt1,
        len |-> Wrap(cnt0 + cnt1, WordBits)]

\* the Slice of brdct_writer_slice, computed from the word it leaves behind
WriterSliceOf(w) ==
    LET head == HeadOf(w)
        same == Shr(w.tail, CapLg2) = Shr(head, CapLg2)
        c0 == Wrap(Cap - Wrap(w.tail - head, WordBits), WordBits)
        cnt0 == IF same THEN Wrap(c0 - LowBits(head, CapLg2), WordBits) ELSE c0
        cnt1 == IF same THEN LowBits(head, CapLg2) ELSE 0
        len == Wrap(cnt0 + cnt1, WordBits)
        full == Wrap(w.tail + len - head, WordBits) = Cap
    IN [idx0 |-> LowBits(w.tail, CapLg2),
        cnt0 |-> IF full /\ cnt1 = 0 /\ cnt0 > 0 THEN cnt0 - 1 ELSE cnt0,
        cnt1 |-> IF full /\ cnt1 > 0 THEN cnt1 - 1 ELSE cnt1,
        len |-> IF full THEN Wrap(len - 1, WordBits) ELSE len]

\* count = s->len - (s->cnt[0] + s->cnt[1])
CommitCount(s) == Wrap(s.len - (s.cnt0 + s.cnt1), WordBits)

\* the ways a caller takes elements out of a slice: first segment first
Takes(s) ==
    { <<d0, 0>> : d0 \in 0 .. s.cnt0 } \cup { <<s.cnt0, d1>> : d1 \in 0 .. s.cnt1 }

\* array index of the i-th element (from 0) taken out of slice s
TakeIndex(s, i) == IF i < s.cnt0 THEN s.idx0 + i ELSE i - s.cnt0

\* no thread is inside a compare-and-swap loop
LInitVars ==
    /\ curr = [t \in Threads |-> ZeroWord]
    /\ stale = [t \in Threads |-> FALSE]

BInitVars ==
    /\ brc = ZeroWord
    /\ slots = [i \in 0 .. (Cap - 1) |-> Unwritten]
    /\ r = [h \in Handles |-> 0]
    /\ rpc = [h \in Handles |-> "detached"]
    /\ rs = [h \in Handles |-> NoSlice]
    /\ ret = [h \in Handles |-> 0]
    /\ produced = 0
    /\ wpc = "idle"
    /\ ws = NoSlice
    /\ wgot = NoSlice

\* a mutation of Saturated: the test is off by one and never true
SaturatedOffByOne(w) == w.nreaders = NReadersMax + 1

\* curr.nreaders == ((1 << 15) - 1) >> BRDCT_RESIZE
Saturated(w) == w.nreaders = NReadersMax

\* brdct_attach_reader returning -1
AttachOverflow(h) ==
    /\ rpc[h] = "detached"
    /\ Saturated(brc)
    /\ ret' = [ret EXCEPT ![h] = -1]
    /\ UNCHANGED <<brc, slots, r, rpc, rs, produced, wpc, ws, wgot>>

\* the state word brdct_attach_reader swaps in
AttachWord(w) == [w EXCEPT !.nreaders = Wrap(w.nreaders + 1, CensusBits)]

\* brdct_attach_reader returning 0
AttachReader(h) ==
    /\ rpc[h] = "detached"
    /\ ~Saturated(brc)
    /\ brc' = AttachWord(brc)
    /\ r' = [r EXCEPT ![h] = Wrap(HeadOf(brc'), ReaderBits)]
    /\ ret' = [ret EXCEPT ![h] = 0]
    /\ rpc' = [rpc EXCEPT ![h] = "attached"]
    /\ UNCHANGED <<slots, rs, produced, wpc, ws, wgot>>

\* the state word brdct_detach_reader swaps in for a reader at rd
DetachWord(w, rd) ==
    [w EXCEPT !.nreaders = Wrap(w.nreaders - 1, CensusBits),
              !.ncycled = IF w.hstate = 1
                             /\ Shr(w.tail, CapLg2 - 1) = Shr(rd, CapLg2 - 1)
                          THEN Wrap(w.ncycled - 1, CensusBits)
                          ELSE w.ncycled]

\* brdct_detach_reader
DetachReader(h) ==
    /\ h \in Active
    /\ rpc[h] = "attached"
    /\ brc' = DetachWord(brc, r[h])
    /\ rpc' = [rpc EXCEPT ![h] = "detached"]
    /\ r' = [r EXCEPT ![h] = 0]
    /\ UNCHANGED <<slots, rs, ret, produced, wpc, ws, wgot>>

\* brdct_reader_slice
ReaderSlice(h) ==
    /\ h \in Active
    /\ rpc[h] = "attached"
    /\ \E d \in TailMinusR(brc.tail, r[h]) :
          rs' = [rs EXCEPT ![h] = ReaderSliceOf(brc.tail, r[h], d)]
    /\ rpc' = [rpc EXCEPT ![h] = "sliced"]
    /\ UNCHANGED <<brc, slots, r, ret, produced, wpc, ws, wgot>>

\* the slice after the caller took d[1] elements out of the first segment
\* and d[2] out of the second (test.c: s.cnt[0] -= res)
Taken(s, d) == [s EXCEPT !.cnt0 = @ - d[1], !.cnt1 = @ - d[2]]

\* *r after brdct_reader_commit's *r += count
ReaderAdvance(rd, s) == Wrap(rd + CommitCount(s), ReaderBits)

\* what the reader's thread finds at array index i: reading beyond the
\* array is an access outside the caller's object
SlotValue(i) == IF i < Cap THEN slots[i] ELSE Unwritten

\* brdct_reader_commit up to its early return, called with the slice the
\* caller decremented by what it consumed
ReaderCommit(h) ==
    /\ rpc[h] = "sliced"
    /\ \E nr \in { ReaderAdvance(r[h], Taken(rs[h], d)) : d \in Takes(rs[h]) } :
          r' = [r EXCEPT ![h] = nr]
    /\ rs' = [rs EXCEPT ![h] = NoSlice]
    /\ rpc' = [rpc EXCEPT ![h] =
                 IF Shr(r'[h], CapLg2 - 1) = Shr(r[h], CapLg2 - 1)
                 THEN "attached" ELSE "cycling"]
    /\ UNCHANGED <<brc, slots, ret, produced, wpc, ws, wgot>>

\* the state word brdct_reader_commit swaps in
CycledWord(w) == [w EXCEPT !.ncycled = Wrap(w.ncycled + 1, CensusBits)]

\* brdct_reader_commit's compare-and-swap
ReaderCycled(h) ==
    /\ rpc[h] = "cycling"
    /\ brc' = CycledWord(brc)
    /\ rpc' = [rpc EXCEPT ![h] = "attached"]
    /\ UNCHANGED <<slots, r, rs, ret, produced, wpc, ws, wgot>>

\* brdct_writer_slice
WriterSlice ==
    /\ wpc = "idle"
    /\ brc' = WriterReset(brc)
    /\ ws' = WriterSliceOf(brc')
    /\ wgot' = ws'
    /\ wpc' = "sliced"
    /\ UNCHANGED <<slots, r, rpc, rs, ret, produced>>

\* the element the writer produces at stream position p
Element(p) == Wrap(p, ReaderBits)

\* main fills part of its slice and decrements the counts; the counts say
\* what is left
WriterFill ==
    /\ wpc = "sliced"
    /\ \E d \in { x \in Takes(ws) : produced + x[1] + x[2] <= FileLen } :
          LET n == d[1] + d[2]
          IN /\ produced' = produced + n
             /\ slots' = [i \in 0 .. (Cap - 1) |->
                            IF \E j \in 0 .. (n - 1) : TakeIndex(ws, j) = i
                            THEN Element(brc.tail
                                         + (CHOOSE j \in 0 .. (n - 1) :
                                               TakeIndex(ws, j) = i))
                            ELSE slots[i]]
             /\ ws' = [ws EXCEPT !.cnt0 = @ - d[1], !.cnt1 = @ - d[2]]
    /\ wpc' = "filled"
    /\ UNCHANGED <<brc, r, rpc, rs, ret, wgot>>

\* the state word brdct_writer_commit swaps in
CommitWord(w, count) ==
    LET t == Wrap(w.tail + count, TailBits)
    IN [w EXCEPT !.tail = t,
                 !.hstate = IF Shr(t, CapLg2 - 1) # Shr(w.tail, CapLg2 - 1)
                            THEN 1 ELSE w.hstate]

\* brdct_writer_commit
WriterCommit ==
    /\ wpc = "filled"
    /\ brc' = CommitWord(brc, CommitCount(ws))
    /\ ws' = NoSlice
    /\ wgot' = NoSlice
    /\ wpc' = "idle"
    /\ UNCHANGED <<slots, r, rpc, rs, ret, produced>>

----------------------------------------------------------------------------
(***************************************************************************)
(* Broadcast queue, one atomic access per step: every loop of the form     *)
(*   curr.raw = atomic_load(&brc->raw);                                    *)
(*   do { new = f(curr); } while (!compare_exchange(&brc->raw, &curr.raw,  *)
(*                                                  new.raw));             *)
(* is a load step followed by compare-and-swap steps.                      *)
(***************************************************************************)
\* where thread t is: inside a compare-and-swap loop, having loaded the word
InLoop(t) ==
    IF t = Writer THEN wpc \in {"slice_cas", "commit_cas"}
                  ELSE rpc[t] \in {"attach_cas", "detach_cas", "cycled_cas"}

\* curr.raw = atomic_load_explicit(&brc->raw, ...) by thread t
Load(t) ==
    /\ curr' = [curr EXCEPT ![t] = brc]
    /\ stale' = [stale EXCEPT ![t] = FALSE]

\* thread t leaves its operation without a compare-and-swap
Leave(t) ==
    /\ curr' = [curr EXCEPT ![t] = ZeroWord]
    /\ stale' = [stale EXCEPT ![t] = FALSE]

\* a compare-and-swap of thread t that succeeds and stores the word new
CasSucceeds(t, new) ==
    /\ brc = curr[t]
    /\ brc' = new
    /\ curr' = [curr EXCEPT ![t] = ZeroWord]
    /\ stale' = [u \in Threads |->
                   IF u = t THEN FALSE
                   ELSE IF InLoop(u) /\ new # brc THEN TRUE ELSE stale[u]]

\* a mutation of CasExpected: a failed compare-and-swap leaves curr as it was
CasExpectedKept(word, expected) == expected

\* what a failed compare-and-swap leaves in curr.raw: the word it found
CasExpected(word, expected) == word

\* a compare-and-swap of thread t that fails
CasFails(t) ==
    /\ brc # curr[t]
    /\ curr' = [curr EXCEPT ![t] = CasExpected(brc, curr[t])]
    /\ stale' = [stale EXCEPT ![t] = FALSE]
    /\ UNCHANGED brc

\* brdct_attach_reader: the load
LAttachLoad(h) ==
    /\ rpc[h] = "detached"
    /\ Load(h)
    /\ rpc' = [rpc EXCEPT ![h] = "attach_cas"]
    /\ UNCHANGED <<brc, slots, r, rs, ret, produced, wpc, ws, wgot>>

\* brdct_attach_reader: one turn of the loop, and the return
LAttachCas(h) ==
    /\ rpc[h] = "attach_cas"
    /\ \/ /\ Saturated(curr[h])
          /\ Leave(h)
          /\ ret' = [ret EXCEPT ![h] = -1]
          /\ rpc' = [rpc EXCEPT ![h] = "detached"]
          /\ UNCHANGED <<brc, r>>
       \/ /\ ~Saturated(curr[h])
          /\ CasSucceeds(h, AttachWord(curr[h]))
          /\ r' = [r EXCEPT ![h] = Wrap(HeadOf(AttachWord(curr[h])), ReaderBits)]
          /\ ret' = [ret EXCEPT ![h] = 0]
          /\ rpc' = [rpc EXCEPT ![h] = "attached"]
       \/ /\ ~Saturated(curr[h])
          /\ CasFails(h)
          /\ UNCHANGED <<r, ret, rpc>>
    /\ UNCHANGED <<slots, rs, produced, wpc, ws, wgot>>

\* brdct_detach_reader: the load
LDetachLoad(h) ==
    /\ rpc[h] = "attached"
    /\ Load(h)
    /\ rpc' = [rpc EXCEPT ![h] = "detach_cas"]
    /\ UNCHANGED <<brc, slots, r, rs, ret, produced, wpc, ws, wgot>>

\* brdct_detach_reader: one turn of the loop
LDetachCas(h) ==
    /\ rpc[h] = "detach_cas"
    /\ \/ /\ CasSucceeds(h, DetachWord(curr[h], r[h]))
          /\ rpc' = [rpc EXCEPT ![h] = "detached"]
          /\ r' = [r EXCEPT ![h] = 0]
       \/ /\ CasFails(h)
          /\ UNCHANGED <<r, rpc>>
    /\ UNCHANGED <<slots, rs, ret, produced, wpc, ws, wgot>>

\* brdct_reader_commit past its early return: the load
LCycledLoad(h) ==
    /\ rpc[h] = "cycling"
    /\ Load(h)
    /\ rpc' = [rpc EXCEPT ![h] = "cycled_cas"]
    /\ UNCHANGED <<brc, slots, r, rs, ret, produced, wpc, ws, wgot>>

\* brdct_reader_commit: one turn of the loop
LCycledCas(h) ==
    /\ rpc[h] = "cycled_cas"
    /\ \/ /\ CasSucceeds(h, CycledWord(curr[h]))
          /\ rpc' = [rpc EXCEPT ![h] = "attached"]
       \/ /\ CasFails(h)
          /\ UNCHANGED rpc
    /\ UNCHANGED <<slots, r, rs, ret, produced, wpc, ws, wgot>>

\* if (new.nreaders == 0 || new.ncycled < new.nreaders) break;
WriterBreaks(w) == w.nreaders = 0 \/ w.ncycled < w.nreaders

\* brdct_writer_slice: the load
LWriterSliceLoad ==
    /\ wpc = "idle"
    /\ Load(Writer)
    /\ wpc' = "slice_cas"
    /\ UNCHANGED <<brc, slots, r, rpc, rs, ret, produced, ws, wgot>>

\* brdct_writer_slice: one turn of the loop, and the slice computed from new
LWriterSliceCas ==
    /\ wpc = "slice_cas"
    /\ \/ /\ WriterBreaks(curr[Writer])
          /\ Leave(Writer)
          /\ ws' = WriterSliceOf(curr[Writer])
          /\ wgot' = ws'
          /\ wpc' = "sliced"
          /\ UNCHANGED brc
       \/ /\ ~WriterBreaks(curr[Writer])
          /\ CasSucceeds(Writer, WriterReset(curr[Writer]))
          /\ ws' = WriterSliceOf(WriterReset(curr[Writer]))
          /\ wgot' = ws'
          /\ wpc' = "sliced"
       \/ /\ ~WriterBreaks(curr[Writer])
          /\ CasFails(Writer)
          /\ UNCHANGED <<wpc, ws, wgot>>
    /\ UNCHANGED <<slots, r, rpc, rs, ret, produced>>

\* brdct_writer_commit: the load
LWriterCommitLoad ==
    /\ wpc = "filled"
    /\ Load(Writer)
    /\ wpc' = "commit_cas"
    /\ UNCHANGED <<brc, slots, r, rpc, rs, ret, produced, ws, wgot>>

\* brdct_writer_commit: one turn of the loop
LWriterCommitCas ==
    /\ wpc = "commit_cas"
    /\ \/ /\ CasSucceeds(Writer, CommitWord(curr[Writer], CommitCount(ws)))
          /\ ws' = NoSlice
          /\ wgot' = NoSlice
          /\ wpc' = "idle"
       \/ /\ CasFails(Writer)
          /\ UNCHANGED <<wpc, ws, wgot>>
    /\ UNCHANGED <<slots, r, rpc, rs, ret, produced>>

\* the steps of the worker thread of handle h
ReaderStep(h) ==
    \/ LAttachLoad(h) /\ UNCHANGED qvars
    \/ LAttachCas(h) /\ UNCHANGED qvars
    \/ LDetachLoad(h) /\ UNCHANGED qvars
    \/ LDetachCas(h) /\ UNCHANGED qvars
    \/ ReaderSlice(h) /\ UNCHANGED <<qvars, lvars>>
    \/ ReaderCommit(h) /\ UNCHANGED <<qvars, lvars>>
    \/ LCycledLoad(h) /\ UNCHANGED qvars
    \/ LCycledCas(h) /\ UNCHANGED qvars

\* the steps of main
WriterStep ==
    \/ LWriterSliceLoad /\ UNCHANGED qvars
    \/ LWriterSliceCas /\ UNCHANGED qvars
    \/ WriterFill /\ UNCHANGED <<qvars, lvars>>
    \/ LWriterCommitLoad /\ UNCHANGED qvars
    \/ LWriterCommitCas /\ UNCHANGED qvars

----------------------------------------------------------------------------
(***************************************************************************)
(* Specifications.                                                         *)
(***************************************************************************)
Init ==
    /\ BInitVars
    /\ QInitVars
    /\ LInitVars
    /\ qhead = 0 /\ qtail = 0 /\ phead = 0 /\ ctail = 0

Next ==
    \/ \E h \in Handles : AttachReader(h) /\ UNCHANGED <<qvars, lvars>>
    \/ \E h \in Handles : AttachOverflow(h) /\ UNCHANGED <<qvars, lvars>>
    \/ \E h \in Handles : DetachReader(h) /\ UNCHANGED <<qvars, lvars>>
    \/ \E h \in Handles : ReaderSlice(h) /\ UNCHANGED <<qvars, lvars>>
    \/ \E h \in Handles : ReaderCommit(h) /\ UNCHANGED <<qvars, lvars>>
    \/ \E h \in Handles : ReaderCycled(h) /\ UNCHANGED <<qvars, lvars>>
    \/ WriterSlice /\ UNCHANGED <<qvars, lvars>>
    \/ WriterFill /\ UNCHANGED <<qvars, lvars>>
    \/ WriterCommit /\ UNCHANGED <<qvars, lvars>>

Spec == Init /\ [][Next]_vars

\* the element last written to array slot i when the writer is at tail t
LastElement(t, i) == Element(t - 1 - Wrap(t - 1 - i, CapLg2))

\* the broadcast queue after a run that left no reader attached: a reader
\* followed the writer up to tail t, the writer reset hstate, the reader
\* detached; main has WLeft bytes of its file left.  t ranges over the whole
\* tail bit-field
WInit ==
    /\ \E t \in 0 .. (Pow2(TailBits) - 1) :
          /\ brc = [tail |-> t, nreaders |-> 0, ncycled |-> 0, hstate |-> 0]
          /\ slots = [i \in 0 .. (Cap - 1) |-> LastElement(t, i)]
    /\ r = [h \in Handles |-> 0]
    /\ rpc = [h \in Handles |-> "detached"]
    /\ rs = [h \in Handles |-> NoSlice]
    /\ ret = [h \in Handles |-> 0]
    /\ produced = FileLen - WLeft
    /\ wpc = "idle" /\ ws = NoSlice /\ wgot = NoSlice
    /\ QInitVars
    /\ LInitVars
    /\ qhead = 0 /\ qtail = 0 /\ phead = 0 /\ ctail = 0

\* the worker threads of the wide-range run and main; too few threads to
\* saturate nreaders
WNext ==
    \/ \E h \in 1 .. WReaders : AttachReader(h) /\ UNCHANGED <<qvars, lvars>>
    \/ \E h \in 1 .. WReaders : DetachReader(h) /\ UNCHANGED <<qvars, lvars>>
    \/ \E h \in 1 .. WReaders : ReaderSlice(h) /\ UNCHANGED <<qvars, lvars>>
    \/ \E h \in 1 .. WReaders : ReaderCommit(h) /\ UNCHANGED <<qvars, lvars>>
    \/ \E h \in 1 .. WReaders : ReaderCycled(h) /\ UNCHANGED <<qvars, lvars>>
    \/ WriterSlice /\ UNCHANGED <<qvars, lvars>>
    \/ WriterFill /\ UNCHANGED <<qvars, lvars>>
    \/ WriterCommit /\ UNCHANGED <<qvars, lvars>>

WSpec == WInit /\ [][WNext]_vars

\* the queue as test.c declares it; main has LLeft bytes of its file left
LInit ==
    /\ brc = ZeroWord
    /\ slots = [i \in 0 .. (Cap - 1) |-> Unwritten]
    /\ r = [h \in Handles |-> 0]
    /\ rpc = [h \in Handles |-> "detached"]
    /\ rs = [h \in Handles |-> NoSlice]
    /\ ret = [h \in Handles |-> 0]
    /\ produced = FileLen - LLeft
    /\ wpc = "idle" /\ ws = NoSlice /\ wgot = NoSlice
    /\ QInitVars
    /\ LInitVars
    /\ qhead = 0 /\ qtail = 0 /\ phead = 0 /\ ctail = 0

LNext ==
    \/ \E h \in 1 .. LReaders : LAttachLoad(h) /\ UNCHANGED qvars
    \/ \E h \in 1 .. LReaders : LAttachCas(h) /\ UNCHANGED qvars
    \/ \E h \in 1 .. LReaders : LDetachLoad(h) /\ UNCHANGED qvars
    \/ \E h \in 1 .. LReaders : LDetachCas(h) /\ UNCHANGED qvars
    \/ \E h \in 1 .. LReaders : ReaderSlice(h) /\ UNCHANGED <<qvars, lvars>>
    \/ \E h \in 1 .. LReaders : ReaderCommit(h) /\ UNCHANGED <<qvars, lvars>>
    \/ \E h \in 1 .. LReaders : LCycledLoad(h) /\ UNCHANGED qvars
    \/ \E h \in 1 .. LReaders : LCycledCas(h) /\ UNCHANGED qvars
    \/ LWriterSliceLoad /\ UNCHANGED qvars
    \/ LWriterSliceCas /\ UNCHANGED qvars
    \/ WriterFill /\ UNCHANGED <<qvars, lvars>>
    \/ LWriterCommitLoad /\ UNCHANGED qvars
    \/ LWriterCommitCas /\ UNCHANGED qvars

\* every thread that can take a step is scheduled again
LFairness ==
    /\ \A h \in 1 .. LReaders : WF_vars(ReaderStep(h))
    /\ WF_vars(WriterStep)

LSpec == LInit /\ [][LNext]_vars /\ LFairness

\* the SPSC queue starts empty at any counter value
QInit ==
    /\ BInitVars
    /\ QInitVars
    /\ LInitVars
    /\ qhead \in QWord
    /\ qtail = qhead /\ phead = qhead /\ ctail = qhead

QNext ==
    \/ QueuePop /\ UNCHANGED <<bvars, lvars>>
    \/ ConsumerRead /\ UNCHANGED <<bvars, lvars>>
    \/ QueueCommitPop /\ UNCHANGED <<bvars, lvars>>
    \/ QueuePush /\ UNCHANGED <<bvars, lvars>>
    \/ ProducerWrite /\ UNCHANGED <<bvars, lvars>>
    \/ QueueCommitPush /\ UNCHANGED <<bvars, lvars>>

QSpec == QInit /\ [][QNext]_vars

----------------------------------------------------------------------------
(***************************************************************************)
(* Claims about the broadcast queue, checked under Spec.                   *)
(***************************************************************************)
Attached(h) == rpc[h] # "detached"

\* array slots of the stream positions from p (included) to p + n (excluded)
SlotsOf(p, n) == { LowBits(p + i, CapLg2) : i \in 0 .. (n - 1) }

\* array slots of the two segments of a slice
SegmentSlots(s) ==
    { s.idx0 + i : i \in 0 .. (s.cnt0 - 1) } \cup { i : i \in 0 .. (s.cnt1 - 1) }

\* tail - r, read in the width of the Reader counter
Lag(h) == Wrap(brc.tail - r[h], ReaderBits)

\* C1: no overwrite of live data: every attached reader's position r
\* satisfies 0 <= tail - r < C
NoOverwriteOfLiveData ==
    \A h \in Handles : Attached(h) => Lag(h) < Cap

\* C2: every reader sees every produced element: whatever slice a reader
\* holds starts at its position r, lies inside the array, covers only
\* committed stream positions, and each of its elements is the element the
\* writer produced at that stream position, for as long as the reader holds it
ReaderSeesTheStream ==
    \A h \in Handles :
        rpc[h] = "sliced" =>
            /\ rs[h].idx0 = LowBits(r[h], CapLg2)
            /\ rs[h].len <= Lag(h)
            /\ \A i \in 0 .. (rs[h].len - 1) :
                  /\ TakeIndex(rs[h], i) < Cap
                  /\ SlotValue(TakeIndex(rs[h], i)) = Element(r[h] + i)

\* C4: census consistency: ncycled <= nreaders, and hstate = 0 implies
\* ncycled = 0, in every value of the state word
CensusConsistency ==
    /\ brc.ncycled <= brc.nreaders
    /\ brc.hstate = 0 => brc.ncycled = 0

\* C9: writer exclusivity: the array slots of the writer's uncommitted slice
\* are disjoint from the slots of every attached reader's readable range
WriterExclusivity ==
    wpc # "idle" =>
        \A h \in Handles :
            Attached(h) => SegmentSlots(wgot) \cap SlotsOf(r[h], Lag(h)) = {}

\* a step in which handle h's brdct_attach_reader returns
AttachReturns(h) ==
    /\ rpc[h] = "detached"
    /\ \/ rpc'[h] = "attached"
       \/ ret[h] # -1 /\ ret'[h] = -1

WriterSliceReturns == wpc = "idle" /\ wpc' = "sliced"

\* C11: back-pressure release: whenever at least one reader is attached and
\* ncycled = nreaders, however that was reached, the next brdct_writer_slice
\* resets hstate and ncycled to 0 and returns a slice with len >= 1
BackPressureRelease ==
    [][WriterSliceReturns /\ brc.nreaders > 0 /\ brc.ncycled = brc.nreaders =>
          /\ brc'.hstate = 0
          /\ brc'.ncycled = 0
          /\ brc'.tail = brc.tail /\ brc'.nreaders = brc.nreaders
          /\ wgot'.len >= 1]_vars

\* the writer holds a non-empty slice past the first half-block, with the
\* back-pressure released and a single reader attached, which has read
\* everything
BackPressureReleaseWitness ==
    /\ wpc = "sliced" /\ wgot.len >= 1
    /\ brc.tail >= HalfLen /\ brc.hstate = 0 /\ brc.ncycled = 0
    /\ brc.nreaders = 1
    /\ \E h \in Active : rpc[h] = "attached" /\ r[h] = brc.tail
    /\ \E h \in Active : rpc[h] = "detached" /\ ret[h] = 0

\* tail - head, with the head derived from the state word
Lead(w) == Wrap(w.tail - HeadOf(w), WordBits)

\* C12 as the specification states it: with nreaders = 0 and hstate = 1 the
\* next brdct_writer_slice resets hstate to 0, so a writer without readers
\* is never held back
NoReadersReset ==
    [][WriterSliceReturns /\ brc.nreaders = 0 /\ brc.hstate = 1 =>
          /\ brc'.hstate = 0
          /\ wgot'.len >= 1]_vars

\* C12, amended: with nreaders = 0 brdct_writer_slice leaves the state word
\* as it is, hstate = 1 included; the slice it returns has
\* len = C - 1 - (tail - head), which is below C/2 when hstate = 1 and is 0
\* once tail - head = C - 1: a writer without readers is held back
NoReadersHoldBack ==
    [][WriterSliceReturns /\ brc.nreaders = 0 =>
          /\ brc' = brc
          /\ wgot'.len = Cap - 1 - Lead(brc)
          /\ brc.hstate = 1 => wgot'.len < HalfLen
          /\ Lead(brc) = Cap - 1 => wgot'.len = 0]_vars

\* the writer, with no reader attached, got an empty slice: the queue holds
\* C - 1 elements and hstate is still 1
NoReadersHoldBackWitness ==
    /\ wpc = "sliced" /\ wgot.len = 0
    /\ brc.nreaders = 0 /\ brc.hstate = 1
    /\ Lead(brc) = Cap - 1

\* a step in which handle h's brdct_attach_reader returns 0
AttachSucceeds(h) == rpc[h] = "detached" /\ rpc'[h] = "attached"

\* the length of the slice brdct_reader_slice returns for a reader at rd,
\* whatever the build makes of curr.tail - *r
SliceLens(w, rd) ==
    { ReaderSliceOf(w.tail, rd, d).len : d \in TailMinusR(w.tail, rd) }

\* C13: attach start position: a successful brdct_attach_reader sets *r to
\* head = (tail & -H) - H * hstate of the state word its compare-and-swap
\* succeeded on, whose tail and hstate it leaves alone (so readers attaching
\* on the same tail and hstate get the same r); and a reader attaching after
\* the writer committed C/2 elements into an empty queue (tail on a
\* half-capacity boundary, hstate = 1) gets an initial slice of length C/2
AttachStartPosition ==
    [][\A h \in Handles :
          AttachSucceeds(h) =>
              /\ brc'.tail = brc.tail /\ brc'.hstate = brc.hstate
              /\ r'[h] = Wrap(HeadOf(brc), ReaderBits)
              /\ brc.hstate = 1 /\ Lead(brc) = HalfLen =>
                    SliceLens(brc', r'[h]) = { HalfLen }]_vars

InTailHalfBlock(h) == Shr(r[h], CapLg2 - 1) = Shr(brc.tail, CapLg2 - 1)

\* the attached readers whose position lies in the half-block of tail
CycledReaders == { h \in Handles : Attached(h) /\ InTailHalfBlock(h) }

\* with hstate = 1 and no reader inside brdct_reader_commit, ncycled counts
\* the attached readers in tail's half-block
CensusExact ==
    brc.hstate = 1 /\ (\A h \in Handles : rpc[h] # "cycling") =>
        brc.ncycled = Cardinality(CycledReaders)

\* a step in which handle h's brdct_detach_reader returns
DetachReturns(h) == rpc[h] = "attached" /\ rpc'[h] = "detached"

\* C15: census exactness: whenever hstate = 1 and no reader is in the middle
\* of a brdct_reader_commit, ncycled is the number of attached readers whose
\* r lies in the half-block of tail; brdct_detach_reader takes 1 from ncycled
\* exactly when the detaching reader is one of them and leaves ncycled alone
\* otherwise; ncycled never underflows
CensusExactness ==
    [][/\ CensusExact'
       /\ \A h \in Handles :
             DetachReturns(h) =>
                 /\ brc.hstate = 1 /\ InTailHalfBlock(h) =>
                       brc.ncycled >= 1 /\ brc'.ncycled = brc.ncycled - 1
                 /\ ~(brc.hstate = 1 /\ InTailHalfBlock(h)) =>
                       brc'.ncycled = brc.ncycled]_vars

\* a step in which brdct_writer_commit is called and returns
WriterCommitReturns == wpc = "filled" /\ wpc' = "idle"

\* half-capacity boundaries between tail values t and u, in the tail field
BoundariesCrossed(t, u) ==
    Wrap(Shr(u, CapLg2 - 1) - Shr(t, CapLg2 - 1), TailBits - (CapLg2 - 1))

\* C16: writer window: a brdct_writer_commit of at most the slice returned
\* by the preceding brdct_writer_slice never moves tail across a
\* half-capacity boundary while hstate = 1, crosses at most one while
\* hstate = 0, and never makes tail - head reach C, head being derived from
\* tail and hstate before the commit as well as after it
WriterWindow ==
    [][WriterCommitReturns /\ CommitCount(ws) <= wgot.len =>
          /\ brc.hstate = 1 => BoundariesCrossed(brc.tail, brc'.tail) = 0
          /\ brc.hstate = 0 => BoundariesCrossed(brc.tail, brc'.tail) <= 1
          /\ Wrap(brc'.tail - HeadOf(brc), TailBits) <= Cap - 1
          /\ Lead(brc') <= Cap - 1]_vars

\* the writer committed all of a slice and stopped one slot short of the
\* boundary: the queue holds C - 1 elements that an attached reader, still
\* at head, has not read
WriterWindowWitness ==
    /\ wpc = "idle" /\ brc.hstate = 1 /\ Lead(brc) = Cap - 1
    /\ brc.tail > Cap
    /\ \E h \in Handles : rpc[h] = "attached" /\ Lag(h) = Cap - 1

\* half-capacity boundaries between reader positions p and q
ReaderBoundariesCrossed(p, q) ==
    Wrap(Shr(q, CapLg2 - 1) - Shr(p, CapLg2 - 1), ReaderBits - (CapLg2 - 1))

\* a step in which handle h's brdct_reader_commit adds count to *r and
\* compares the half-blocks
ReaderCommitAdvances(h) == rpc[h] = "sliced" /\ rpc'[h] # "sliced"

\* a step in which handle h's brdct_reader_commit swaps the state word
ReaderCommitSwaps(h) == rpc[h] = "cycling" /\ rpc'[h] # "cycling"

\* C17: reader crossing: a brdct_reader_commit of at most the slice returned
\* by the preceding brdct_reader_slice advances r across at most one
\* half-capacity boundary; it adds exactly 1 to ncycled when r >> (caplg2-1)
\* changed and leaves the state word untouched otherwise; it never modifies
\* tail, nreaders or hstate
ReaderCrossing ==
    [][\A h \in Handles :
          /\ ReaderCommitAdvances(h) =>
                /\ ReaderBoundariesCrossed(r[h], r'[h]) <= 1
                /\ brc' = brc
                /\ rpc'[h] = "cycling" <=>
                      Shr(r'[h], CapLg2 - 1) # Shr(r[h], CapLg2 - 1)
          /\ ReaderCommitSwaps(h) =>
                /\ brc'.ncycled = brc.ncycled + 1
                /\ brc'.tail = brc.tail
                /\ brc'.nreaders = brc.nreaders
                /\ brc'.hstate = brc.hstate
                /\ r'[h] = r[h]]_vars

\* thread t is inside an operation that ends with a compare-and-swap
InOperation(t) ==
    IF t = Writer THEN wpc \in {"slice_cas", "commit_cas"}
                  ELSE rpc[t] \in {"attach_cas", "detach_cas", "cycling",
                                   "cycled_cas"}

\* thread t is somewhere else after the step
ThreadMoved(t) == IF t = Writer THEN wpc' # wpc ELSE rpc'[t] # rpc[t]

\* a step in which a compare-and-swap of thread t fails: t stays in its loop
\* with another curr
CasFailed(t) == InLoop(t) /\ ~ThreadMoved(t) /\ curr'[t] # curr[t]

\* a step in which an operation of the library returns to its caller
OperationCompletes ==
    \/ \E h \in Handles :
          rpc'[h] # rpc[h] /\ rpc'[h] \in {"detached", "attached", "sliced"}
    \/ wpc' # wpc /\ wpc' \in {"sliced", "idle"}

\* a step in which a thread other than t changes the state word
OtherChangesWord(t) == brc' # brc /\ ~ThreadMoved(t)

\* C18: lock-freedom: a compare-and-swap fails only when another thread
\* changed the state word since the failing thread loaded it;
\* brdct_reader_slice, and a brdct_writer_slice that finds nreaders = 0 or
\* ncycled < nreaders, write nothing; in every execution operations keep
\* completing; and a thread stays inside an operation for ever only if other
\* threads change the state word again and again, so every started operation
\* completes once the others take finitely many steps
LockFreedom ==
    /\ [][/\ \A t \in Threads : CasFailed(t) => stale[t]
          /\ \A h \in Handles :
                rpc[h] = "attached" /\ rpc'[h] = "sliced" => brc' = brc
          /\ wpc = "slice_cas" /\ wpc' = "sliced" /\ WriterBreaks(curr[Writer])
                => brc' = brc]_vars
    /\ []<><<OperationCompletes>>_vars
    /\ \A t \in {Writer} \cup (1 .. LReaders) :
          []<>(~InOperation(t)) \/ []<><<OtherChangesWord(t)>>_vars

\* the writer's compare-and-swap in brdct_writer_commit is about to fail
\* because a reader attached since the writer loaded the word, while another
\* reader is inside its own loop
LockFreedomWitness ==
    /\ wpc = "commit_cas" /\ stale[Writer] /\ brc # curr[Writer]
    /\ brc.nreaders > curr[Writer].nreaders
    /\ \E h \in Handles : InLoop(h)

\* a step in which handle h's brdct_reader_slice returns
ReaderSliceReturns(h) == rpc[h] = "attached" /\ rpc'[h] = "sliced"

\* the reader of handle h has cycled: it is no further behind tail than the
\* start of tail's half-block
HasCycled(h) == Lag(h) <= LowBits(brc.tail, CapLg2 - 1)

\* C19: wrap safety with the declared widths, Reader one bit narrower than
\* the tail bit-field: for every tail value, also after the total produced
\* passes 2^(width of Reader), brdct_reader_slice returns len equal to the
\* number of elements committed and not yet consumed by that reader, a value
\* in [0, C - 1], and brdct_detach_reader's half-block comparison identifies
\* exactly the readers that have cycled
WidthWrapSafety ==
    [][\A h \in Handles :
          /\ ReaderSliceReturns(h) =>
                /\ rs'[h].len = Lag(h)
                /\ rs'[h].len <= Cap - 1
          /\ DetachReturns(h) /\ brc.hstate = 1 =>
                (brc'.ncycled # brc.ncycled <=> HasCycled(h))]_vars

\* the shape of a slice as a slice operation returns it
WellShaped(s) ==
    /\ s.len = s.cnt0 + s.cnt1
    /\ s.idx0 + s.cnt0 <= Cap
    /\ s.cnt1 <= s.idx0
    /\ s.cnt0 = 0 => s.len = 0

\* C20: slice shape: every slice returned by brdct_reader_slice and
\* brdct_writer_slice satisfies len = cnt[0] + cnt[1], idx[0] + cnt[0] <= C,
\* cnt[1] <= idx[0], and cnt[0] = 0 only if len = 0, so a caller that works
\* through the first segment only makes progress whenever the slice is not
\* empty
SliceShape ==
    /\ \A h \in Handles : rpc[h] = "sliced" => WellShaped(rs[h])
    /\ wpc # "idle" => WellShaped(wgot)

----------------------------------------------------------------------------
(***************************************************************************)
(* Claims about the SPSC queue, checked under QSpec.                       *)
(***************************************************************************)
\* tail - head, unsigned, modulo 2^word_width
QFill == Wrap(qtail - qhead, QWordBits)

IsPrefix(s, t) == Len(s) <= Len(t) /\ \A i \in 1 .. Len(s) : s[i] = t[i]

\* the consumer's slice holds only slots the producer has committed
ConsumerReadsCommitted ==
    cpc # "idle" => /\ cidx = LowBits(qhead, QCapLg2)
                    /\ cidx + ccount <= QCap
                    /\ ccount <= QFill

\* the producer's slice holds only slots the consumer has committed as popped
ProducerWritesFree ==
    ppc # "idle" => /\ pidx = LowBits(qtail, QCapLg2)
                    /\ pidx + pcount <= QCap
                    /\ pcount <= QCap - QFill

\* C3: SPSC conservation: the elements popped are at every moment a prefix,
\* in order, of the elements pushed (what the consumer has read and not yet
\* committed included); the consumer never reads a slot not yet committed
\* and the producer never writes a slot not yet committed as popped
Conservation ==
    /\ IsPrefix(popped \o cgot, pushed)
    /\ ConsumerReadsCommitted
    /\ ProducerWritesFree

\* the consumer popped elements that came through the array while the
\* producer held a slice
ConservationWitness ==
    /\ Len(popped) >= QCap + 1
    /\ Len(pushed) > Len(popped)
    /\ ppc = "written" /\ pn > 0
    /\ cpc = "read" /\ Len(cgot) > 0

\* C5: SPSC capacity bound: tail - head (unsigned, modular) stays in [0, C]
CapacityBound == QFill \in 0 .. QCap

\* the queue is full after it has been drained and refilled
CapacityBoundWitness ==
    /\ QFill = QCap
    /\ Len(popped) > 0

\* C6: SPSC empty/full disambiguation: queue_pop sets count = 0 exactly when
\* head equals the tail it loaded, and queue_push sets count = 0 exactly when
\* tail minus the head it loaded equals C
EmptyFullDisambiguation ==
    /\ cpc = "sliced" => (ccount = 0 <=> qhead = ctail)
    /\ ppc = "sliced" => (pcount = 0 <=> Wrap(qtail - phead, QWordBits) = QCap)

\* queue_pop found the queue empty while queue_push found it full, at
\* counters that are equal modulo C
EmptyFullWitness ==
    /\ cpc = "sliced" /\ ccount = 0 /\ qhead = ctail
    /\ ppc = "sliced" /\ pcount = 0 /\ Wrap(qtail - phead, QWordBits) = QCap
    /\ LowBits(qtail, QCapLg2) = LowBits(phead, QCapLg2)

\* C7: SPSC slices are the maximal contiguous run: queue_pop returns
\* index = head mod C and count = min(tail - head, C - index), queue_push
\* returns index = tail mod C and count = min(C - (tail - head), C - index),
\* and index + count <= C
MaximalContiguousRun ==
    /\ cpc = "sliced" =>
          /\ cidx = qhead % QCap
          /\ ccount = Min(Wrap(ctail - qhead, QWordBits), QCap - cidx)
          /\ cidx + ccount <= QCap
    /\ ppc = "sliced" =>
          /\ pidx = qtail % QCap
          /\ pcount = Min(QCap - Wrap(qtail - phead, QWordBits), QCap - pidx)
          /\ pidx + pcount <= QCap

\* the consumer's slice is cut at the end of the array, with more to pop
\* behind it, while the producer's slice is cut by the consumer's head
MaximalContiguousRunWitness ==
    /\ cpc = "sliced" /\ cidx > 0 /\ ccount = QCap - cidx
    /\ Wrap(ctail - qhead, QWordBits) > ccount
    /\ ppc = "sliced" /\ pidx > 0 /\ pcount > 0
    /\ pcount = QCap - Wrap(qtail - phead, QWordBits)
    /\ pcount < QCap - pidx

\* the counter has overflowed the machine word
Overflowed(counter, steps) == Wrap(counter - steps, QWordBits) + steps >= Pow2(QWordBits)

\* C8: SPSC wrap safety: once head or tail has overflowed the machine word,
\* the capacity bound, the empty/full tests, index + count <= C and FIFO
\* conservation keep holding
WrapSafety ==
    Overflowed(qtail, Len(pushed)) \/ Overflowed(qhead, Len(popped)) =>
        /\ QFill <= QCap
        /\ cpc = "sliced" => (ccount = 0 <=> qhead = ctail)
        /\ ppc = "sliced" => (pcount = 0 <=> Wrap(qtail - phead, QWordBits) = QCap)
        /\ cpc # "idle" => cidx + ccount <= QCap
        /\ ppc # "idle" => pidx + pcount <= QCap
        /\ IsPrefix(popped \o cgot, pushed)

\* tail has overflowed, head has not, and the consumer reads across the
\* overflow
WrapSafetyWitness ==
    /\ Overflowed(qtail, Len(pushed))
    /\ ~Overflowed(qhead, Len(popped))
    /\ qtail < qhead
    /\ cpc = "read" /\ Len(cgot) > 0
    /\ Len(popped) > 0

====
